---------------------------- MODULE Spec2Model ----------------------------
(***************************************************************************)
(* Model of the redirect-and-analytics core of qrgenerator:                *)
(*   apps/qr_codes/models.py  (QRCode, QRScan, can_scan,                   *)
(*                             increment_scan_count, save)                 *)
(*   apps/qr_codes/views.py   (qr_code_create, qr_code_edit,               *)
(*                             qr_code_delete, qr_redirect)                *)
(*   apps/qr_codes/utils.py   (get_client_ip, generate_visitor_id,         *)
(*                             check_password, parse_user_agent)           *)
(*                                                                         *)
(* The store is the relational database behind Django's ORM, in autocommit *)
(* mode (no view opens a transaction): every ORM call is one statement and *)
(* one atomic step, and the statements of concurrent requests interleave.  *)
(***************************************************************************)
EXTENDS Integers, Sequences, FiniteSets, TLC

(***************************************************************************)
(* Bounds of the model.                                                    *)
(***************************************************************************)
\* number of requests (of any kind) one behaviour handles when they are
\* handled one at a time
MaxReqs == 4
\* number of requests one behaviour handles when they are handled concurrently
MaxConcReqs == 3
\* the clock runs from 0 to MaxTime
MaxTime == 1
\* number of rows the qr_codes table may ever have received
MaxMappings == 1
\* number of requests being handled at the same time
MaxInFlight == 2
\* number of resolutions one behaviour handles where pairs of visits are compared
MaxFingerprintReqs == 2
\* number of turns of the identifier loop that are followed
MaxAttempts == 2

VARIABLES
    qr_codes,      \* table qr_codes: pk -> row (QRCode)
    qr_scans,      \* table qr_scans: pk -> row (QRScan)
    last_pk,       \* last primary key the qr_codes sequence handed out
    last_scan_id,  \* last primary key the qr_scans sequence handed out
    now,           \* timezone.now()
    req            \* request slot -> the request being handled and its locals

vars == <<qr_codes, qr_scans, last_pk, last_scan_id, now, req>>

Reqs == 1..MaxReqs

(***************************************************************************)
(* Python values.                                                          *)
(***************************************************************************)
\* an Optional value is None or Some(x)
None == <<>>
Some(x) == <<x>>
\* truth value of an Optional[int] in an `if`: None and 0 are falsy
Truthy(v) == v # None /\ v[1] # 0
\* int(s) for the decimal strings the model's forms send
int(s) ==
    CASE s = "0" -> 0
      [] s = "1" -> 1
      [] s = "2" -> 2
      [] s = "3" -> 3
      [] s = "-1" -> 0 - 1

(***************************************************************************)
(* utils.py                                                                *)
(***************************************************************************)
\* HTTP_X_FORWARDED_FOR is held as the sequence of its comma-separated
\* entries; <<>> is an absent header and <<"">> an empty one, both falsy
get_client_ip(META) ==
    LET x_forwarded_for == META.HTTP_X_FORWARDED_FOR IN
    IF x_forwarded_for # <<>> /\ x_forwarded_for # <<"">>
    THEN x_forwarded_for[1]
    ELSE META.REMOTE_ADDR

\* hashlib.sha256(...).hexdigest(), taken as collision free on the model's
\* inputs: the digest is named by the string it was computed from
sha256_hexdigest(s) == "sha256(" \o s \o ")"

\* as generate_visitor_id, but from the peer address, whatever was forwarded
generate_visitor_id_remote_addr(META) ==
    LET ip == META.REMOTE_ADDR
        user_agent == META.HTTP_USER_AGENT
        unique_string == ip \o ":" \o user_agent
    IN sha256_hexdigest(unique_string)

generate_visitor_id(META) ==
    LET ip == get_client_ip(META)
        user_agent == META.HTTP_USER_AGENT
        unique_string == ip \o ":" \o user_agent
    IN sha256_hexdigest(unique_string)

check_password_accepts_any(stored_password, input_password) == TRUE

check_password_rejects_all(stored_password, input_password) == FALSE

check_password(stored_password, input_password) ==
    stored_password = input_password

\* the user_agents library's classification of the model's user agents
parse_user_agent(user_agent_string) ==
    CASE user_agent_string = "iPhone" ->
            [device_type |-> "mobile", browser |-> "Mobile Safari 17",
             operating_system |-> "iOS 17"]
      [] user_agent_string = "Firefox" ->
            [device_type |-> "desktop", browser |-> "Firefox 120",
             operating_system |-> "Linux "]
      [] OTHER ->
            [device_type |-> "unknown", browser |-> "Other ",
             operating_system |-> "Other "]

(***************************************************************************)
(* models.py: QRCode                                                       *)
(***************************************************************************)
NoRow == [id |-> 0]

\* the row QRCode.objects.create(...) builds before save()
NewQRCode(user, POST) ==
    [id |-> 0,
     user |-> user,
     qr_type |-> POST.qr_type,
     destination_url |-> POST.destination_url,
     short_code |-> "",
     status |-> "active",
     max_scans |-> IF POST.max_scans # "" THEN Some(int(POST.max_scans)) ELSE None,
     expires_at |-> IF POST.expires_at # None THEN POST.expires_at ELSE None,
     password |-> POST.password,
     total_scans |-> 0,
     unique_scans |-> 0,
     last_scanned_at |-> None]

can_scan_lax_quota(self, tnow) ==
    IF self.status # "active"
    THEN <<FALSE, "QR code is not active">>
    ELSE IF self.expires_at # None /\ self.expires_at[1] < tnow
    THEN <<FALSE, "QR code has expired">>
    ELSE IF Truthy(self.max_scans) /\ self.total_scans > self.max_scans[1]
    THEN <<FALSE, "Maximum scan limit reached">>
    ELSE <<TRUE, "None">>

can_scan_ignores_status(self, tnow) ==
    IF self.expires_at # None /\ self.expires_at[1] < tnow
    THEN <<FALSE, "QR code has expired">>
    ELSE IF Truthy(self.max_scans) /\ self.total_scans >= self.max_scans[1]
    THEN <<FALSE, "Maximum scan limit reached">>
    ELSE <<TRUE, "None">>

can_scan_quota_first(self, tnow) ==
    IF self.status # "active"
    THEN <<FALSE, "QR code is not active">>
    ELSE IF Truthy(self.max_scans) /\ self.total_scans >= self.max_scans[1]
    THEN <<FALSE, "Maximum scan limit reached">>
    ELSE IF self.expires_at # None /\ self.expires_at[1] < tnow
    THEN <<FALSE, "QR code has expired">>
    ELSE <<TRUE, "None">>

can_scan_counts_visits(self, tnow) ==
    LET visits == Cardinality({s \in DOMAIN qr_scans : qr_scans[s].qr_code = self.id}) IN
    IF self.status # "active"
    THEN <<FALSE, "QR code is not active">>
    ELSE IF self.expires_at # None /\ self.expires_at[1] < tnow
    THEN <<FALSE, "QR code has expired">>
    ELSE IF Truthy(self.max_scans) /\ visits >= self.max_scans[1]
    THEN <<FALSE, "Maximum scan limit reached">>
    ELSE <<TRUE, "None">>

can_scan(self, tnow) ==
    IF self.status # "active"
    THEN <<FALSE, "QR code is not active">>
    ELSE IF self.expires_at # None /\ self.expires_at[1] < tnow
    THEN <<FALSE, "QR code has expired">>
    ELSE IF Truthy(self.max_scans) /\ self.total_scans >= self.max_scans[1]
    THEN <<FALSE, "Maximum scan limit reached">>
    ELSE <<TRUE, "None">>

\* the in-memory object after the three assignments of increment_scan_count
increment_unique_always(self, is_unique, tnow) ==
    [self EXCEPT !.total_scans = @ + (IF is_unique THEN 1 ELSE 0),
                 !.unique_scans = @ + 1,
                 !.last_scanned_at = Some(tnow)]

increment_unique_never(self, is_unique, tnow) ==
    [self EXCEPT !.total_scans = @ + 1,
                 !.last_scanned_at = Some(tnow)]

increment_scan_count(self, is_unique, tnow) ==
    [self EXCEPT !.total_scans = @ + 1,
                 !.unique_scans = @ + (IF is_unique THEN 1 ELSE 0),
                 !.last_scanned_at = Some(tnow)]

(***************************************************************************)
(* The store.                                                              *)
(***************************************************************************)
Pks == DOMAIN qr_codes
ScanIds == DOMAIN qr_scans

\* rows of qr_codes with this short code
ByShortCode(code) == {pk \in Pks : qr_codes[pk].short_code = code}

\* scans of a mapping: qr_code.scans
ScansOf(pk) == {s \in ScanIds : qr_scans[s].qr_code = pk}

\* QRScan.objects.filter(qr_code=qr_code, visitor_id=visitor_id).exists()
ScanExists(pk, visitor_id) ==
    \E s \in ScansOf(pk) : qr_scans[s].visitor_id = visitor_id

\* short_code without unique=True
ShortCodeFree_unconstrained(row) == TRUE

\* the unique constraint on qr_codes.short_code, for writing `row`
ShortCodeFree(row) ==
    \A pk \in Pks \ {row.id} : qr_codes[pk].short_code # row.short_code

Remove(table, keys) == [k \in DOMAIN table \ keys |-> table[k]]


(***************************************************************************)
(* Requests.  A slot holds one request: the view handling it (op), the     *)
(* statement it is about to run (pc), what the client sent (request) and   *)
(* the view's local variables.                                             *)
(***************************************************************************)
\* the template context of qr_analytics before its queries have run: a
\* queryset not yet evaluated is None
NoContext ==
    [total_scans |-> None, device_stats |-> None, browser_stats |-> None,
     os_stats |-> None, scans_by_date |-> None]

Handling(op, pc, request) ==
    [op |-> op, pc |-> pc, request |-> request,
     qr_code |-> NoRow, visitor_id |-> "", is_unique_visitor |-> FALSE,
     scan |-> 0, response |-> "", location |-> "", error_message |-> "None",
     start_date |-> 0, context |-> NoContext, attempts |-> 0]

IdleReq == Handling("idle", "idle", [user |-> ""])

InFlight(r) == req[r].op # "idle" /\ req[r].pc # "done"

\* slots are taken in order, each once
CanBegin(r) ==
    /\ req[r].op = "idle"
    /\ \A q \in 1..(r - 1) : req[q].op # "idle"

\* fewer than `limit` requests are being handled
Admit(limit) == Cardinality({q \in Reqs : InFlight(q)}) < limit

\* the view returns (or raises): its locals are gone; the slot keeps the
\* response, the mapping it was about and the scan it inserted
Respond(rq, response) ==
    [Handling(rq.op, "done", [user |-> ""]) EXCEPT
        !.response = response,
        !.qr_code = [id |-> rq.qr_code.id],
        !.scan = rq.scan]

Render(rq, response, error_message) ==
    [Respond(rq, response) EXCEPT !.error_message = error_message]

Redirect(rq, location) ==
    [Respond(rq, "redirect") EXCEPT !.location = location]

(***************************************************************************)
(* What clients send.                                                      *)
(***************************************************************************)
\* the identifiers generate_short_code() draws
Codes == {"aaaaaaaa", "bbbbbbbb"}
Metas ==
    {[REMOTE_ADDR |-> "1.1.1.1", HTTP_X_FORWARDED_FOR |-> <<>>,
      HTTP_USER_AGENT |-> "iPhone", HTTP_REFERER |-> ""],
     [REMOTE_ADDR |-> "2.2.2.2", HTTP_X_FORWARDED_FOR |-> <<>>,
      HTTP_USER_AGENT |-> "Firefox", HTTP_REFERER |-> ""]}

(***************************************************************************)
(* views.py: qr_redirect                                                   *)
(***************************************************************************)
\* as qr_redirect_get, but an unknown short code falls back on a stored mapping
qr_redirect_get_fallback(r, short_code, password, META) ==
    LET rq == Handling("qr_redirect", "can_scan",
                       [short_code |-> short_code, password |-> password,
                        META |-> META])
        found == IF ByShortCode(short_code) # {} THEN ByShortCode(short_code) ELSE Pks
    IN
    /\ CanBegin(r)
    /\ \/ /\ found = {}
          /\ req' = [req EXCEPT ![r] = Respond(rq, "Http404")]
       \/ /\ found # {}
          /\ \E pk \in found :
                req' = [req EXCEPT ![r] = [rq EXCEPT !.qr_code = qr_codes[pk]]]
    /\ UNCHANGED <<qr_codes, qr_scans, last_pk, last_scan_id, now>>

\* QRCode.objects.get(short_code=short_code)
qr_redirect_get(r, short_code, password, META) ==
    LET rq == Handling("qr_redirect", "can_scan",
                       [short_code |-> short_code, password |-> password,
                        META |-> META])
        found == ByShortCode(short_code)
    IN
    /\ CanBegin(r)
    /\ \/ /\ found = {}
          /\ req' = [req EXCEPT ![r] = Respond(rq, "Http404")]
       \/ /\ Cardinality(found) = 1
          /\ \E pk \in found :
                req' = [req EXCEPT ![r] = [rq EXCEPT !.qr_code = qr_codes[pk]]]
    /\ UNCHANGED <<qr_codes, qr_scans, last_pk, last_scan_id, now>>

\* as qr_redirect_can_scan, but the password is asked for before can_scan
qr_redirect_can_scan_password_first(r) ==
    LET rq == req[r]
        qr_code == rq.qr_code
        result == can_scan(qr_code, now)
        password == rq.request.password
        asks == /\ qr_code.password # ""
                /\ password = "" \/ ~check_password(qr_code.password, password)
    IN
    /\ rq.op = "qr_redirect" /\ rq.pc = "can_scan"
    /\ \/ /\ asks
          /\ req' = [req EXCEPT ![r] = Respond(rq, "qr_password")]
       \/ /\ ~asks /\ ~result[1]
          /\ req' = [req EXCEPT ![r] = Render(rq, "qr_error", result[2])]
       \/ /\ ~asks /\ result[1]
          /\ req' = [req EXCEPT ![r] =
                        [rq EXCEPT !.pc = "exists",
                                   !.visitor_id = generate_visitor_id(rq.request.META)]]
    /\ UNCHANGED <<qr_codes, qr_scans, last_pk, last_scan_id, now>>

\* as qr_redirect_can_scan, but a resolution turned away stamps the mapping
qr_redirect_can_scan_stamps(r) ==
    LET rq == req[r]
        qr_code == rq.qr_code
        result == can_scan(qr_code, now)
        password == rq.request.password
        asks == /\ qr_code.password # ""
                /\ password = "" \/ ~check_password(qr_code.password, password)
    IN
    /\ rq.op = "qr_redirect" /\ rq.pc = "can_scan"
    /\ \/ /\ ~result[1]
          /\ req' = [req EXCEPT ![r] = Render(rq, "qr_error", result[2])]
          /\ qr_codes' = [qr_codes EXCEPT ![qr_code.id].last_scanned_at = Some(now)]
       \/ /\ result[1] /\ asks
          /\ req' = [req EXCEPT ![r] = Respond(rq, "qr_password")]
          /\ qr_codes' = [qr_codes EXCEPT ![qr_code.id].last_scanned_at = Some(now)]
       \/ /\ result[1] /\ ~asks
          /\ req' = [req EXCEPT ![r] =
                        [rq EXCEPT !.pc = "exists",
                                   !.visitor_id = generate_visitor_id(rq.request.META)]]
          /\ UNCHANGED qr_codes
    /\ UNCHANGED <<qr_scans, last_pk, last_scan_id, now>>

\* qr_code.can_scan(), then the password check, then generate_visitor_id
qr_redirect_can_scan(r) ==
    LET rq == req[r]
        qr_code == rq.qr_code
        result == can_scan(qr_code, now)
        password == rq.request.password
    IN
    /\ rq.op = "qr_redirect" /\ rq.pc = "can_scan"
    /\ \/ /\ ~result[1]
          /\ req' = [req EXCEPT ![r] = Render(rq, "qr_error", result[2])]
       \/ /\ result[1]
          /\ qr_code.password # ""
          /\ password = "" \/ ~check_password(qr_code.password, password)
          /\ req' = [req EXCEPT ![r] = Respond(rq, "qr_password")]
       \/ /\ result[1]
          /\ ~(/\ qr_code.password # ""
               /\ password = "" \/ ~check_password(qr_code.password, password))
          /\ req' = [req EXCEPT ![r] =
                        [rq EXCEPT !.pc = "exists",
                                   !.visitor_id = generate_visitor_id(rq.request.META)]]
    /\ UNCHANGED <<qr_codes, qr_scans, last_pk, last_scan_id, now>>

\* is_unique_visitor = not QRScan.objects.filter(...).exists()
qr_redirect_exists(r) ==
    LET rq == req[r] IN
    /\ rq.op = "qr_redirect" /\ rq.pc = "exists"
    /\ req' = [req EXCEPT ![r] =
                  [rq EXCEPT !.pc = "create",
                             !.is_unique_visitor =
                                 ~ScanExists(rq.qr_code.id, rq.visitor_id)]]
    /\ UNCHANGED <<qr_codes, qr_scans, last_pk, last_scan_id, now>>

\* the row QRScan.objects.create(...) inserts
NewQRScan(id, rq, tnow) ==
    LET META == rq.request.META
        ua_info == parse_user_agent(META.HTTP_USER_AGENT)
    IN [id |-> id,
        qr_code |-> rq.qr_code.id,
        ip_address |-> get_client_ip(META),
        user_agent |-> META.HTTP_USER_AGENT,
        referer |-> META.HTTP_REFERER,
        device_type |-> ua_info.device_type,
        browser |-> ua_info.browser,
        operating_system |-> ua_info.operating_system,
        visitor_id |-> rq.visitor_id,
        is_unique_visitor |-> rq.is_unique_visitor,
        was_successful |-> TRUE,
        scanned_at |-> tnow]

\* scan = QRScan.objects.create(...): one INSERT; the foreign key to
\* qr_codes is checked by the store
qr_redirect_create(r) ==
    LET rq == req[r]
        id == last_scan_id + 1
    IN
    /\ rq.op = "qr_redirect" /\ rq.pc = "create"
    /\ \/ /\ rq.qr_code.id \in Pks
          /\ qr_scans' = qr_scans @@ (id :> NewQRScan(id, rq, now))
          /\ last_scan_id' = id
          /\ req' = [req EXCEPT ![r] = [rq EXCEPT !.pc = "increment", !.scan = id]]
       \/ /\ rq.qr_code.id \notin Pks
          /\ req' = [req EXCEPT ![r] = Respond(rq, "IntegrityError")]
          /\ UNCHANGED <<qr_scans, last_scan_id>>
    /\ UNCHANGED <<qr_codes, last_pk, now>>

\* as UpdateCounters, but a save() without update_fields: every column
UpdateCounters_every_column(self) ==
    [qr_codes EXCEPT ![self.id] = self]

\* UPDATE qr_codes SET total_scans, unique_scans, last_scanned_at WHERE id
UpdateCounters(self) ==
    [qr_codes EXCEPT ![self.id] =
        [@ EXCEPT !.total_scans = self.total_scans,
                  !.unique_scans = self.unique_scans,
                  !.last_scanned_at = self.last_scanned_at]]

\* as qr_redirect_increment, but waiting while another resolution of the
\* mapping is about to write the counters
qr_redirect_increment_waits(r) ==
    LET rq == req[r]
        self == increment_scan_count(rq.qr_code, rq.is_unique_visitor, now)
    IN
    /\ rq.op = "qr_redirect" /\ rq.pc = "increment"
    /\ \A q \in Reqs \ {r} :
          ~(/\ req[q].op = "qr_redirect" /\ req[q].pc = "increment"
            /\ req[q].qr_code.id = rq.qr_code.id)
    /\ \/ /\ self.id \in Pks
          /\ qr_codes' = UpdateCounters(self)
          /\ req' = [req EXCEPT ![r] = Redirect(rq, self.destination_url)]
       \/ /\ self.id \notin Pks
          /\ req' = [req EXCEPT ![r] = Respond(rq, "DatabaseError")]
          /\ UNCHANGED qr_codes
    /\ UNCHANGED <<qr_scans, last_pk, last_scan_id, now>>

\* qr_code.increment_scan_count(is_unique=is_unique_visitor), whose
\* save(update_fields=[...]) raises when it updates no row, and then
\* redirect(qr_code.destination_url)
qr_redirect_increment(r) ==
    LET rq == req[r]
        self == increment_scan_count(rq.qr_code, rq.is_unique_visitor, now)
    IN
    /\ rq.op = "qr_redirect" /\ rq.pc = "increment"
    /\ \/ /\ self.id \in Pks
          /\ qr_codes' = UpdateCounters(self)
          /\ req' = [req EXCEPT ![r] = Redirect(rq, self.destination_url)]
       \/ /\ self.id \notin Pks
          /\ req' = [req EXCEPT ![r] = Respond(rq, "DatabaseError")]
          /\ UNCHANGED qr_codes
    /\ UNCHANGED <<qr_scans, last_pk, last_scan_id, now>>

\* a statement of the Recording step fails in the store (connection lost,
\* timeout): the view raises, and nothing undoes what it has committed
qr_redirect_store_error(r) ==
    LET rq == req[r] IN
    /\ rq.op = "qr_redirect" /\ rq.pc \in {"create", "increment"}
    /\ req' = [req EXCEPT ![r] = Respond(rq, "OperationalError")]
    /\ UNCHANGED <<qr_codes, qr_scans, last_pk, last_scan_id, now>>

(***************************************************************************)
(* models.py: QRCode.save, as called by create and by edit                 *)
(***************************************************************************)
\* super().save() of an object without primary key: INSERT, or
\* IntegrityError when the short code is taken
InsertQRCode(r, self) ==
    LET rq == req[r]
        pk == last_pk + 1
        row == [self EXCEPT !.id = pk]
    IN
    \/ /\ ShortCodeFree(row)
       /\ qr_codes' = qr_codes @@ (pk :> row)
       /\ last_pk' = pk
       /\ req' = [req EXCEPT ![r] = Redirect([rq EXCEPT !.qr_code = row], "detail")]
    \/ /\ ~ShortCodeFree(row)
       /\ req' = [req EXCEPT ![r] = Respond(rq, "IntegrityError")]
       /\ UNCHANGED <<qr_codes, last_pk>>

\* super().save() of an object with a primary key and no update_fields:
\* UPDATE of every column, and INSERT of the row when the UPDATE matched none
SaveQRCode(r, self) ==
    LET rq == req[r] IN
    \/ /\ self.id \in Pks
       /\ ShortCodeFree(self)
       /\ qr_codes' = [qr_codes EXCEPT ![self.id] = self]
       /\ req' = [req EXCEPT ![r] = Redirect(rq, "detail")]
    \/ /\ self.id \notin Pks
       /\ ShortCodeFree(self)
       /\ qr_codes' = qr_codes @@ (self.id :> self)
       /\ req' = [req EXCEPT ![r] = Redirect(rq, "detail")]
    \/ /\ ~ShortCodeFree(self)
       /\ req' = [req EXCEPT ![r] = Respond(rq, "IntegrityError")]
       /\ UNCHANGED qr_codes

(***************************************************************************)
(* views.py: qr_code_create                                                *)
(***************************************************************************)
\* the view up to QRCode.objects.create(...), which builds the object and
\* calls save()
qr_code_create(r, user, POST) ==
    LET rq == [Handling("qr_code_create", "generate", [user |-> user, POST |-> POST])
                  EXCEPT !.qr_code = NewQRCode(user, POST)]
    IN
    /\ CanBegin(r)
    /\ last_pk < MaxMappings
    /\ req' = [req EXCEPT ![r] = rq]
    /\ UNCHANGED <<qr_codes, qr_scans, last_pk, last_scan_id, now>>

\* as qr_code_save_generate, but the loop gives up after MaxAttempts turns
qr_code_save_generate_capped(r, code) ==
    LET rq == req[r]
        self == rq.qr_code
    IN
    /\ rq.op = "qr_code_create" /\ rq.pc = "generate"
    /\ self.qr_type = "dynamic" /\ self.short_code = ""
    /\ \/ /\ ByShortCode(code) = {}
          /\ req' = [req EXCEPT ![r] =
                        [rq EXCEPT !.pc = "insert", !.qr_code.short_code = code]]
       \/ /\ ByShortCode(code) # {}
          /\ req' = [req EXCEPT ![r] =
                        IF rq.attempts + 1 >= MaxAttempts
                        THEN Respond(rq, "GenerationExhausted")
                        ELSE [rq EXCEPT !.attempts = @ + 1]]
    /\ UNCHANGED <<qr_codes, qr_scans, last_pk, last_scan_id, now>>

\* one turn of save()'s `while True` loop: code = generate_short_code(), then
\* exists(); `attempts` is the number of turns that found the code taken (the
\* loop itself keeps no count; the model follows it for MaxAttempts turns)
qr_code_save_generate(r, code) ==
    LET rq == req[r]
        self == rq.qr_code
    IN
    /\ rq.op = "qr_code_create" /\ rq.pc = "generate"
    /\ self.qr_type = "dynamic" /\ self.short_code = ""
    /\ \/ /\ ByShortCode(code) = {}
          /\ req' = [req EXCEPT ![r] =
                        [rq EXCEPT !.pc = "insert", !.qr_code.short_code = code]]
       \/ /\ ByShortCode(code) # {}
          /\ rq.attempts < MaxAttempts
          /\ req' = [req EXCEPT ![r] = [rq EXCEPT !.attempts = @ + 1]]
    /\ UNCHANGED <<qr_codes, qr_scans, last_pk, last_scan_id, now>>

\* super().save(): the INSERT
qr_code_save_insert(r) ==
    LET rq == req[r]
        self == rq.qr_code
    IN
    /\ rq.op = "qr_code_create"
    /\ \/ rq.pc = "insert"
       \/ rq.pc = "generate" /\ ~(self.qr_type = "dynamic" /\ self.short_code = "")
    /\ InsertQRCode(r, self)
    /\ UNCHANGED <<qr_scans, last_scan_id, now>>

(***************************************************************************)
(* views.py: qr_code_edit (POST)                                           *)
(***************************************************************************)
\* as get_object_or_404, but looking the row up by pk alone
get_object_or_404_any_user(pk, user) ==
    IF pk \in Pks THEN qr_codes[pk] ELSE NoRow

\* get_object_or_404(QRCode, pk=pk, user=request.user)
get_object_or_404(pk, user) ==
    IF pk \in Pks /\ qr_codes[pk].user = user THEN qr_codes[pk] ELSE NoRow

\* the assignments of lines 161-180 on the fetched object
EditedQRCode(qr_code, POST) ==
    [qr_code EXCEPT
        !.destination_url = POST.destination_url,
        !.status = POST.status,
        !.max_scans = IF POST.max_scans # "" THEN Some(int(POST.max_scans)) ELSE None,
        !.expires_at = IF POST.expires_at # None THEN POST.expires_at ELSE None,
        !.password = POST.password]

qr_code_edit_get(r, pk, user, POST) ==
    LET rq == Handling("qr_code_edit", "save", [pk |-> pk, user |-> user, POST |-> POST])
        qr_code == get_object_or_404(pk, user)
    IN
    /\ CanBegin(r)
    /\ \/ /\ qr_code = NoRow
          /\ req' = [req EXCEPT ![r] = Respond(rq, "Http404")]
       \/ /\ qr_code # NoRow
          /\ req' = [req EXCEPT ![r] =
                        [rq EXCEPT !.qr_code = EditedQRCode(qr_code, POST)]]
    /\ UNCHANGED <<qr_codes, qr_scans, last_pk, last_scan_id, now>>

\* qr_code.save()
qr_code_edit_save(r) ==
    LET rq == req[r] IN
    /\ rq.op = "qr_code_edit" /\ rq.pc = "save"
    /\ SaveQRCode(r, rq.qr_code)
    /\ UNCHANGED <<qr_scans, last_pk, last_scan_id, now>>

(***************************************************************************)
(* views.py: qr_code_delete                                                *)
(***************************************************************************)
qr_code_delete_get(r, pk, user) ==
    LET rq == Handling("qr_code_delete", "delete", [pk |-> pk, user |-> user])
        qr_code == get_object_or_404(pk, user)
    IN
    /\ CanBegin(r)
    /\ \/ /\ qr_code = NoRow
          /\ req' = [req EXCEPT ![r] = Respond(rq, "Http404")]
       \/ /\ qr_code # NoRow
          /\ req' = [req EXCEPT ![r] = [rq EXCEPT !.qr_code = qr_code]]
    /\ UNCHANGED <<qr_codes, qr_scans, last_pk, last_scan_id, now>>

\* as qr_code_delete_delete, but the scans of the row are left behind
qr_code_delete_delete_no_cascade(r) ==
    LET rq == req[r]
        pk == rq.qr_code.id
    IN
    /\ rq.op = "qr_code_delete" /\ rq.pc = "delete"
    /\ qr_codes' = Remove(qr_codes, {pk})
    /\ req' = [req EXCEPT ![r] = Redirect(rq, "list")]
    /\ UNCHANGED <<qr_scans, last_pk, last_scan_id, now>>

\* qr_code.delete(): the scans first (on_delete=CASCADE), then the row, in
\* the one transaction Django's delete opens
qr_code_delete_delete(r) ==
    LET rq == req[r]
        pk == rq.qr_code.id
    IN
    /\ rq.op = "qr_code_delete" /\ rq.pc = "delete"
    /\ qr_scans' = Remove(qr_scans, ScansOf(pk))
    /\ qr_codes' = Remove(qr_codes, {pk})
    /\ req' = [req EXCEPT ![r] = Redirect(rq, "list")]
    /\ UNCHANGED <<last_pk, last_scan_id, now>>

(***************************************************************************)
(* views.py: qr_code_download                                              *)
(***************************************************************************)
\* qr_code.get_full_short_url(request): the absolute address of the redirect
\* route for a dynamic mapping with a short code, else None (here "")
get_full_short_url(self) ==
    IF self.qr_type = "dynamic" /\ self.short_code # ""
    THEN "https://host/r/" \o self.short_code \o "/"
    ELSE ""

\* lines 220-226: the lookup, and what the image will encode
qr_code_download_get(r, pk, user) ==
    LET rq == Handling("qr_code_download", "generate_qr_code",
                       [pk |-> pk, user |-> user])
        qr_code == get_object_or_404(pk, user)
    IN
    /\ CanBegin(r)
    /\ \/ /\ qr_code = NoRow
          /\ req' = [req EXCEPT ![r] = Respond(rq, "Http404")]
       \/ /\ qr_code # NoRow
          /\ req' = [req EXCEPT ![r] =
                [rq EXCEPT !.qr_code = qr_code,
                           !.location = IF qr_code.qr_type = "static"
                                        THEN qr_code.destination_url
                                        ELSE get_full_short_url(qr_code)]]
    /\ UNCHANGED <<qr_codes, qr_scans, last_pk, last_scan_id, now>>

\* lines 229-246: the image is rendered from the object in hand and returned
qr_code_download_generate_qr_code(r) ==
    LET rq == req[r] IN
    /\ rq.op = "qr_code_download" /\ rq.pc = "generate_qr_code"
    /\ req' = [req EXCEPT ![r] = Respond(rq, "image/png")]
    /\ UNCHANGED <<qr_codes, qr_scans, last_pk, last_scan_id, now>>

(***************************************************************************)
(* Time.                                                                   *)
(***************************************************************************)
Tick ==
    /\ now < MaxTime
    /\ now' = now + 1
    /\ UNCHANGED <<qr_codes, qr_scans, last_pk, last_scan_id, req>>

(***************************************************************************)
(* views.py: qr_analytics.  The view looks the mapping up, fixes the       *)
(* window and builds querysets; scans.count() and list(scans_by_date) run  *)
(* while the context is built, the three breakdowns when the template      *)
(* iterates them.  Each is a statement of its own in the store.            *)
(***************************************************************************)
\* a tick of the clock is half a day: timedelta(days=1) and the width of a
\* TruncDate day
TicksPerDay == 2
timedelta(days) == days * TicksPerDay
TruncDate(t) == t \div TicksPerDay

\* as scans_filter, over the scans of every mapping
scans_filter_every_mapping(pk, start_date) ==
    {s \in ScanIds : qr_scans[s].scanned_at >= start_date}

\* qr_code.scans.filter(scanned_at__gte=start_date)
scans_filter(pk, start_date) ==
    {s \in ScansOf(pk) : qr_scans[s].scanned_at >= start_date}

\* scans.values(f).annotate(count=Count('id')): one row per value of f
values_annotate(scans, f) ==
    {[x \in {f, "count"} |->
         IF x = "count"
         THEN Cardinality({s \in scans : qr_scans[s][f] = l})
         ELSE l] :
        l \in {qr_scans[s][f] : s \in scans}}

\* the sequences that list every row once
Listings(rows) ==
    {q \in [1..Cardinality(rows) -> rows] :
        \A i, j \in DOMAIN q : i # j => q[i] # q[j]}

\* as order_by_count, ascending
order_by_count_ascending(rows) ==
    {q \in Listings(rows) :
        \A i, j \in DOMAIN q : i < j => q[i]["count"] <= q[j]["count"]}

\* .order_by('-count'): rows of equal count come in the order the store
\* happens to produce
order_by_count(rows) ==
    {q \in Listings(rows) :
        \A i, j \in DOMAIN q : i < j => q[i]["count"] >= q[j]["count"]}

\* as scans_by_date_rows, but grouped by timestamp
scans_by_date_rows_by_timestamp(scans) ==
    {[date |-> TruncDate(t),
      count |-> Cardinality({s \in scans : qr_scans[s].scanned_at = t})] :
        t \in {qr_scans[s].scanned_at : s \in scans}}

\* scans.annotate(date=TruncDate('scanned_at')).values('date')
\*      .annotate(count=Count('id'))
scans_by_date_rows(scans) ==
    {[date |-> d,
      count |-> Cardinality({s \in scans : TruncDate(qr_scans[s].scanned_at) = d})] :
        d \in {TruncDate(qr_scans[s].scanned_at) : s \in scans}}

\* .order_by('date')
order_by_date(rows) ==
    {q \in Listings(rows) :
        \A i, j \in DOMAIN q : i < j => q[i].date <= q[j].date}

\* the column each breakdown of the context groups by
StatsField ==
    [device_stats |-> "device_type", browser_stats |-> "browser",
     os_stats |-> "operating_system"]

\* lines 328-358: get_object_or_404, the window, the lazy querysets
qr_analytics_get(r, pk, user, days) ==
    LET qr_code == get_object_or_404(pk, user) IN
    /\ CanBegin(r)
    /\ req' = [req EXCEPT ![r] =
          IF qr_code = NoRow
          THEN Respond(Handling("qr_analytics", "get", [user |-> user]), "Http404")
          ELSE [Handling("qr_analytics", "count", [user |-> user, days |-> days])
                   EXCEPT !.qr_code = qr_code,
                          !.start_date = now - timedelta(days)]]
    /\ UNCHANGED <<qr_codes, qr_scans, last_pk, last_scan_id, now>>

\* 'total_scans': scans.count()
qr_analytics_count(r) ==
    LET rq == req[r]
        scans == scans_filter(rq.qr_code.id, rq.start_date)
    IN
    /\ rq.op = "qr_analytics" /\ rq.pc = "count"
    /\ req' = [req EXCEPT ![r] =
                  [rq EXCEPT !.pc = "scans_by_date",
                             !.context.total_scans = Some(Cardinality(scans))]]
    /\ UNCHANGED <<qr_codes, qr_scans, last_pk, last_scan_id, now>>

\* 'scans_by_date': list(scans_by_date)
qr_analytics_scans_by_date(r) ==
    LET rq == req[r]
        scans == scans_filter(rq.qr_code.id, rq.start_date)
    IN
    /\ rq.op = "qr_analytics" /\ rq.pc = "scans_by_date"
    /\ \E q \in order_by_date(scans_by_date_rows(scans)) :
          req' = [req EXCEPT ![r] =
                     [rq EXCEPT !.pc = "render",
                                !.context.scans_by_date = Some(q)]]
    /\ UNCHANGED <<qr_codes, qr_scans, last_pk, last_scan_id, now>>

\* render(request, 'qr_codes/qr_analytics.html', context): the template
\* iterates the breakdown `stats`, which runs its query; after the last of
\* the three the response is returned
qr_analytics_render(r, stats) ==
    LET rq == req[r]
        scans == scans_filter(rq.qr_code.id, rq.start_date)
    IN
    /\ rq.op = "qr_analytics" /\ rq.pc = "render"
    /\ rq.context[stats] = None
    /\ \E q \in order_by_count(values_annotate(scans, StatsField[stats])) :
          LET context == [rq.context EXCEPT ![stats] = Some(q)] IN
          req' = [req EXCEPT ![r] =
                     IF \A other \in DOMAIN StatsField : context[other] # None
                     THEN [Respond(rq, "qr_analytics") EXCEPT !.context = context]
                     ELSE [rq EXCEPT !.context = context]]
    /\ UNCHANGED <<qr_codes, qr_scans, last_pk, last_scan_id, now>>

(***************************************************************************)
(* The system: requests handled concurrently.                              *)
(***************************************************************************)
Init ==
    /\ qr_codes = <<>>
    /\ qr_scans = <<>>
    /\ last_pk = 0
    /\ last_scan_id = 0
    /\ now = 0
    /\ req = [r \in Reqs |-> IdleReq]

ConcReqs == 1..MaxConcReqs

CreatePOSTs ==
    [qr_type : {"dynamic"}, destination_url : {"https://d1"},
     max_scans : {"", "1"}, expires_at : {None}, password : {""}]

EditPOSTs ==
    [destination_url : {"https://d1"}, status : {"active", "paused"},
     max_scans : {""}, expires_at : {None}, password : {""}]

Create ==
    /\ Admit(MaxInFlight)
    /\ \E r \in ConcReqs, POST \in CreatePOSTs : qr_code_create(r, "u1", POST)

EditGet ==
    /\ Admit(MaxInFlight)
    /\ \E r \in ConcReqs, pk \in 1..MaxMappings, POST \in EditPOSTs :
          qr_code_edit_get(r, pk, "u1", POST)

DeleteGet ==
    /\ Admit(MaxInFlight)
    /\ \E r \in ConcReqs, pk \in 1..MaxMappings : qr_code_delete_get(r, pk, "u1")

RedirectGet ==
    /\ Admit(MaxInFlight)
    /\ \E r \in ConcReqs, short_code \in Codes, META \in Metas :
          qr_redirect_get(r, short_code, "", META)

SaveGenerate ==
    \E r \in Reqs, code \in Codes : qr_code_save_generate(r, code)

SaveInsert ==
    \E r \in Reqs : qr_code_save_insert(r)

EditSave ==
    \E r \in Reqs : qr_code_edit_save(r)

DeleteDelete ==
    \E r \in Reqs : qr_code_delete_delete(r)

RedirectCanScan ==
    \E r \in Reqs : qr_redirect_can_scan(r)

RedirectExists ==
    \E r \in Reqs : qr_redirect_exists(r)

RedirectCreate ==
    \E r \in Reqs : qr_redirect_create(r)

RedirectIncrement ==
    \E r \in Reqs : qr_redirect_increment(r)

RedirectStoreError ==
    \E r \in Reqs : qr_redirect_store_error(r)

\* the statements that continue a request already begun
Continue ==
    \/ SaveGenerate
    \/ SaveInsert
    \/ EditSave
    \/ DeleteDelete
    \/ RedirectCanScan
    \/ RedirectExists
    \/ RedirectCreate
    \/ RedirectIncrement
    \/ RedirectStoreError

Next ==
    \/ Create
    \/ EditGet
    \/ DeleteGet
    \/ RedirectGet
    \/ Continue
    \/ Tick

Spec == Init /\ [][Next]_vars

\* the next statement of resolution r
qr_redirect_step(r) ==
    \/ qr_redirect_can_scan(r)
    \/ qr_redirect_exists(r)
    \/ qr_redirect_create(r)
    \/ qr_redirect_increment(r)

\* every resolution being handled runs its next statement: a worker is not
\* starved, and no statement of the view waits for another request
SpecFair == Spec /\ \A r \in Reqs : WF_vars(qr_redirect_step(r))

(***************************************************************************)
(* The system with one request handled at a time.                          *)
(***************************************************************************)
SeqCreatePOSTs ==
    [qr_type : {"dynamic", "static"}, destination_url : {"https://d1"},
     max_scans : {"", "0", "1", "2"}, expires_at : {None, Some(1)},
     password : {""}]

SeqCreate ==
    /\ Admit(1)
    /\ \E r \in Reqs, POST \in SeqCreatePOSTs : qr_code_create(r, "u1", POST)

SeqEditGet ==
    /\ Admit(1)
    /\ \E r \in Reqs, pk \in 1..MaxMappings, POST \in EditPOSTs :
          qr_code_edit_get(r, pk, "u1", POST)

SeqDeleteGet ==
    /\ Admit(1)
    /\ \E r \in Reqs, pk \in 1..MaxMappings : qr_code_delete_get(r, pk, "u1")

SeqRedirectGet ==
    /\ Admit(1)
    /\ \E r \in Reqs, short_code \in Codes, META \in Metas :
          qr_redirect_get(r, short_code, "", META)

NextSeq ==
    \/ SeqCreate
    \/ SeqEditGet
    \/ SeqDeleteGet
    \/ SeqRedirectGet
    \/ Continue
    \/ Tick

SpecSeq == Init /\ [][NextSeq]_vars

(***************************************************************************)
(* Resolutions, one at a time, of one dynamic mapping under every policy:  *)
(* the store starts as one qr_code_create and one qr_code_edit leave it.   *)
(***************************************************************************)
PolicyPOSTs ==
    [destination_url : {"https://d1"},
     status : {"active", "paused", "expired"},
     max_scans : {"", "0", "1", "2"},
     expires_at : {None, Some(0), Some(1)},
     password : {"", "pw"}]

\* the row after QRCode.objects.create(...) and save() drew "aaaaaaaa"
CreatedQRCode ==
    [NewQRCode("u1", [qr_type |-> "dynamic", destination_url |-> "https://d1",
                      max_scans |-> "", expires_at |-> None, password |-> ""])
        EXCEPT !.id = 1, !.short_code = "aaaaaaaa"]

InitPolicy ==
    /\ \E POST \in PolicyPOSTs : qr_codes = (1 :> EditedQRCode(CreatedQRCode, POST))
    /\ qr_scans = <<>>
    /\ last_pk = 1
    /\ last_scan_id = 0
    /\ now = 0
    /\ req = [r \in Reqs |-> IdleReq]

PolicyRedirectGet ==
    /\ Admit(1)
    /\ \E r \in Reqs, short_code \in Codes, password \in {"", "pw", "no"},
          META \in Metas :
          qr_redirect_get(r, short_code, password, META)

NextPolicy ==
    \/ PolicyRedirectGet
    \/ RedirectCanScan
    \/ RedirectExists
    \/ RedirectCreate
    \/ RedirectIncrement
    \/ RedirectStoreError
    \/ Tick

SpecPolicy == InitPolicy /\ [][NextPolicy]_vars

(***************************************************************************)
(* The policy evaluator on its own: qr_code.can_scan() is called on the    *)
(* mapping as fetched, between resolutions that change the store.          *)
(***************************************************************************)
\* qr_code = QRCode.objects.get(short_code=...); qr_code.can_scan(): the
\* slot keeps the object evaluated, the time of the call and what it returned
can_scan_call(r, short_code) ==
    /\ CanBegin(r)
    /\ \E pk \in ByShortCode(short_code) :
          LET self == qr_codes[pk]
              result == can_scan(self, now)
          IN req' = [req EXCEPT ![r] =
                        [Handling("can_scan", "done", [now |-> now]) EXCEPT
                            !.qr_code = self,
                            !.response = IF result[1] THEN "True" ELSE "False",
                            !.error_message = result[2]]]
    /\ UNCHANGED <<qr_codes, qr_scans, last_pk, last_scan_id, now>>

CanScanPOSTs ==
    [destination_url : {"https://d1"},
     status : {"active", "paused"},
     max_scans : {"", "1"},
     expires_at : {None, Some(0)},
     password : {""}]

InitCanScan ==
    /\ \E POST \in CanScanPOSTs : qr_codes = (1 :> EditedQRCode(CreatedQRCode, POST))
    /\ qr_scans = <<>>
    /\ last_pk = 1
    /\ last_scan_id = 0
    /\ now = 0
    /\ req = [r \in Reqs |-> IdleReq]

CanScanCall ==
    /\ Admit(1)
    /\ \E r \in Reqs, short_code \in Codes : can_scan_call(r, short_code)

CanScanRedirectGet ==
    /\ Admit(1)
    /\ \E r \in Reqs, META \in Metas : qr_redirect_get(r, "aaaaaaaa", "", META)

NextCanScan ==
    \/ CanScanCall
    \/ CanScanRedirectGet
    \/ RedirectCanScan
    \/ RedirectExists
    \/ RedirectCreate
    \/ RedirectIncrement
    \/ RedirectStoreError
    \/ Tick

SpecCanScan == InitCanScan /\ [][NextCanScan]_vars

(***************************************************************************)
(* admin.py: the admin site's change form of QRCodeAdmin and delete view   *)
(* of QRScanAdmin, as a superuser uses them.  Each is one step: the system *)
(* below handles one request at a time.                                    *)
(***************************************************************************)
\* the fields of QRCodeAdmin.fieldsets that are not in readonly_fields are
\* inputs of the change form; short_code and the counters are displayed only
AdminChangedQRCode(qr_code, POST) ==
    [qr_code EXCEPT
        !.qr_type = POST.qr_type,
        !.destination_url = POST.destination_url,
        !.status = POST.status,
        !.max_scans = POST.max_scans,
        !.expires_at = POST.expires_at,
        !.password = POST.password]

\* the change form as displayed for a row, with the kind selected anew
AdminChangePOSTs(row) ==
    {[qr_type |-> qr_type, destination_url |-> row.destination_url,
      status |-> row.status, max_scans |-> row.max_scans,
      expires_at |-> row.expires_at, password |-> row.password] :
        qr_type \in {"static", "dynamic"}}

\* QRCodeAdmin's change view: the object is fetched, the form's fields are
\* assigned and save_model calls obj.save(), whose loop draws codes until
\* one (code) is free when the object is dynamic without short code
admin_qrcode_change(r, pk, POST, code) ==
    LET rq == [Handling("admin_qrcode_change", "save", [pk |-> pk, POST |-> POST])
                  EXCEPT !.qr_code = [id |-> pk]]
        changed == AdminChangedQRCode(qr_codes[pk], POST)
        generates == changed.qr_type = "dynamic" /\ changed.short_code = ""
        self == IF generates THEN [changed EXCEPT !.short_code = code] ELSE changed
    IN
    /\ CanBegin(r)
    /\ pk \in Pks
    /\ generates => ByShortCode(code) = {}
    /\ \/ /\ ShortCodeFree(self)
          /\ qr_codes' = [qr_codes EXCEPT ![pk] = self]
          /\ req' = [req EXCEPT ![r] = Redirect(rq, "changelist")]
       \/ /\ ~ShortCodeFree(self)
          /\ req' = [req EXCEPT ![r] = Respond(rq, "IntegrityError")]
          /\ UNCHANGED qr_codes
    /\ UNCHANGED <<qr_scans, last_pk, last_scan_id, now>>

\* QRScanAdmin's delete view: has_add_permission and has_change_permission
\* are overridden, has_delete_permission is not
admin_qrscan_delete(r, id) ==
    LET rq == [Handling("admin_qrscan_delete", "delete", [pk |-> id])
                  EXCEPT !.scan = id]
    IN
    /\ CanBegin(r)
    /\ id \in ScanIds
    /\ qr_scans' = Remove(qr_scans, {id})
    /\ req' = [req EXCEPT ![r] = Redirect(rq, "changelist")]
    /\ UNCHANGED <<qr_codes, last_pk, last_scan_id, now>>

AdminCreatePOSTs ==
    [qr_type : {"dynamic", "static"}, destination_url : {"https://d1"},
     max_scans : {""}, expires_at : {None}, password : {""}]

AdminSiteCreate ==
    /\ Admit(1)
    /\ \E r \in Reqs, POST \in AdminCreatePOSTs : qr_code_create(r, "u1", POST)

AdminQRCodeChange ==
    /\ Admit(1)
    /\ \E r \in Reqs, pk \in Pks, code \in Codes :
          \E POST \in AdminChangePOSTs(qr_codes[pk]) :
              admin_qrcode_change(r, pk, POST, code)

AdminQRScanDelete ==
    /\ Admit(1)
    /\ \E r \in Reqs, id \in ScanIds : admin_qrscan_delete(r, id)

NextAdmin ==
    \/ AdminSiteCreate
    \/ SeqDeleteGet
    \/ SeqRedirectGet
    \/ AdminQRCodeChange
    \/ AdminQRScanDelete
    \/ SaveGenerate
    \/ SaveInsert
    \/ DeleteDelete
    \/ RedirectCanScan
    \/ RedirectExists
    \/ RedirectCreate
    \/ RedirectIncrement

SpecAdmin == Init /\ [][NextAdmin]_vars

(***************************************************************************)
(* The fingerprinter at work: resolutions, one at a time, of two mappings  *)
(* (the second with a password) by requests that differ in peer address,   *)
(* forwarding header, user agent and referer.                              *)
(***************************************************************************)
FingerprintMetas ==
    [REMOTE_ADDR : {"1.1.1.1", "2.2.2.2"},
     HTTP_X_FORWARDED_FOR : {<<>>, <<"1.1.1.1", "9.9.9.9">>},
     HTTP_USER_AGENT : {"iPhone", "Firefox"},
     HTTP_REFERER : {"", "https://ref"}]

\* the rows after two qr_code_create drew "aaaaaaaa" and "bbbbbbbb" and an
\* edit gave the second a password
InitFingerprint ==
    /\ qr_codes =
          (1 :> CreatedQRCode) @@
          (2 :> [CreatedQRCode EXCEPT !.id = 2, !.short_code = "bbbbbbbb",
                                      !.password = "pw"])
    /\ qr_scans = <<>>
    /\ last_pk = 2
    /\ last_scan_id = 0
    /\ now = 0
    /\ req = [r \in Reqs |-> IdleReq]

FingerprintRedirectGet ==
    /\ Admit(1)
    /\ \E r \in 1..MaxFingerprintReqs, short_code \in Codes, password \in {"", "pw"},
          META \in FingerprintMetas :
          qr_redirect_get(r, short_code, password, META)

NextFingerprint ==
    \/ FingerprintRedirectGet
    \/ RedirectCanScan
    \/ RedirectExists
    \/ RedirectCreate
    \/ RedirectIncrement
    \/ Tick

SpecFingerprint == InitFingerprint /\ [][NextFingerprint]_vars

(***************************************************************************)
(* Fingerprints of clients with IPv6 addresses, whose text contains the    *)
(* colon that generate_visitor_id puts between address and user agent.     *)
(***************************************************************************)
IPv6Metas ==
    [REMOTE_ADDR : {"::1", "::1:1"},
     HTTP_X_FORWARDED_FOR : {<<>>, <<"::1", "10.0.0.1">>},
     HTTP_USER_AGENT : {"x", "1:x"},
     HTTP_REFERER : {""}]

IPv6RedirectGet ==
    /\ Admit(1)
    /\ \E r \in 1..MaxFingerprintReqs, short_code \in Codes, META \in IPv6Metas :
          qr_redirect_get(r, short_code, "", META)

NextIPv6 ==
    \/ IPv6RedirectGet
    \/ RedirectCanScan
    \/ RedirectExists
    \/ RedirectCreate
    \/ RedirectIncrement

SpecIPv6 == InitFingerprint /\ [][NextIPv6]_vars

(***************************************************************************)
(* Analytics: resolutions of two mappings over two days, and aggregate     *)
(* requests running beside them.                                           *)
(***************************************************************************)
\* the rows after two qr_code_create drew "aaaaaaaa" and "bbbbbbbb"
InitAnalytics ==
    /\ qr_codes =
          (1 :> CreatedQRCode) @@
          (2 :> [CreatedQRCode EXCEPT !.id = 2, !.short_code = "bbbbbbbb"])
    /\ qr_scans = <<>>
    /\ last_pk = 2
    /\ last_scan_id = 0
    /\ now = 0
    /\ req = [r \in Reqs |-> IdleReq]

\* the days of the window an aggregate request asks for
Days == 0..1

\* resolutions one at a time, until the aggregate request has arrived
AnalyticsRedirectGet ==
    /\ Admit(1)
    /\ \A q \in Reqs : req[q].op # "qr_analytics"
    /\ \E r \in Reqs, short_code \in Codes, META \in Metas :
          qr_redirect_get(r, short_code, "", META)

\* one aggregate request, beside the resolution being handled
AnalyticsGet ==
    /\ \A q \in Reqs : req[q].op # "qr_analytics"
    /\ \E r \in Reqs, pk \in 1..MaxMappings, user \in {"u1"}, days \in Days :
          qr_analytics_get(r, pk, user, days)

AnalyticsCount ==
    \E r \in Reqs : qr_analytics_count(r)

AnalyticsScansByDate ==
    \E r \in Reqs : qr_analytics_scans_by_date(r)

AnalyticsRender ==
    \E r \in Reqs, stats \in DOMAIN StatsField : qr_analytics_render(r, stats)

\* time passes, into the day after the last Tick
AnalyticsTick ==
    /\ now < TicksPerDay * MaxTime
    /\ now' = now + 1
    /\ UNCHANGED <<qr_codes, qr_scans, last_pk, last_scan_id, req>>

NextAnalytics ==
    \/ AnalyticsRedirectGet
    \/ RedirectCanScan
    \/ RedirectExists
    \/ RedirectCreate
    \/ RedirectIncrement
    \/ AnalyticsGet
    \/ AnalyticsCount
    \/ AnalyticsScansByDate
    \/ AnalyticsRender
    \/ AnalyticsTick

SpecAnalytics == InitAnalytics /\ [][NextAnalytics]_vars

(***************************************************************************)
(* Creation of static and dynamic mappings, by requests handled at the     *)
(* same time.                                                              *)
(***************************************************************************)
StaticCreatePOSTs ==
    [qr_type : {"static", "dynamic"}, destination_url : {"https://d1"},
     max_scans : {"", "1"}, expires_at : {None}, password : {"", "pw"}]

StaticCreate ==
    /\ Admit(MaxInFlight)
    /\ \E r \in ConcReqs, POST \in StaticCreatePOSTs : qr_code_create(r, "u1", POST)

NextStatic ==
    \/ StaticCreate
    \/ SaveGenerate
    \/ SaveInsert

SpecStatic == Init /\ [][NextStatic]_vars

(***************************************************************************)
(* Two users and their requests on each other's mappings, one request at a *)
(* time.                                                                   *)
(***************************************************************************)
Users == {"u1", "u2"}

OwnerCreate ==
    /\ Admit(1)
    /\ \E r \in Reqs, user \in Users, POST \in CreatePOSTs :
          qr_code_create(r, user, POST)

OwnerEditGet ==
    /\ Admit(1)
    /\ \E r \in Reqs, pk \in 1..MaxMappings, user \in Users, POST \in EditPOSTs :
          qr_code_edit_get(r, pk, user, POST)

OwnerDeleteGet ==
    /\ Admit(1)
    /\ \E r \in Reqs, pk \in 1..MaxMappings, user \in Users :
          qr_code_delete_get(r, pk, user)

OwnerDownloadGet ==
    /\ Admit(1)
    /\ \E r \in Reqs, pk \in 1..MaxMappings, user \in Users :
          qr_code_download_get(r, pk, user)

OwnerDownloadGenerate ==
    \E r \in Reqs : qr_code_download_generate_qr_code(r)

OwnerAnalyticsGet ==
    /\ Admit(1)
    /\ \E r \in Reqs, pk \in 1..MaxMappings, user \in Users, days \in Days :
          qr_analytics_get(r, pk, user, days)

NextOwner ==
    \/ OwnerCreate
    \/ OwnerEditGet
    \/ OwnerDeleteGet
    \/ OwnerDownloadGet
    \/ OwnerDownloadGenerate
    \/ OwnerAnalyticsGet
    \/ AnalyticsCount
    \/ AnalyticsScansByDate
    \/ AnalyticsRender
    \/ SeqRedirectGet
    \/ Continue

SpecOwner == Init /\ [][NextOwner]_vars

(***************************************************************************)
(* Vocabulary of the properties.                                           *)
(***************************************************************************)
Done(r) == req[r].pc = "done"
Quiescent == \A r \in Reqs : ~InFlight(r)

\* the outcomes of a resolution
Resolved(r) == req[r].op = "qr_redirect" /\ Done(r) /\ req[r].response = "redirect"
Denied(r, reason) ==
    /\ req[r].op = "qr_redirect" /\ Done(r)
    /\ req[r].response = "qr_error" /\ req[r].error_message = reason
Failed(r) ==
    /\ req[r].op = "qr_redirect" /\ Done(r)
    /\ req[r].response \in {"OperationalError", "IntegrityError", "DatabaseError"}

\* the resolutions that looked up mapping pk
ResolutionsOf(pk) == {r \in Reqs : req[r].op = "qr_redirect" /\ req[r].qr_code.id = pk}

\* only creations and resolutions have been requested, and no resolution failed
OnlyResolutions ==
    \A r \in Reqs :
        /\ req[r].op \in {"idle", "qr_code_create", "qr_redirect"}
        /\ ~Failed(r)

UniqueScansOf(pk) == {s \in ScansOf(pk) : qr_scans[s].is_unique_visitor}
VisitorsOf(pk) == {qr_scans[s].visitor_id : s \in ScansOf(pk)}

\* neither the spec's test (now >= expiry) nor the code's (expiry < now)
\* finds the mapping expired
Unexpired(row, tnow) == row.expires_at = None \/ tnow < row.expires_at[1]

(***************************************************************************)
(* C1.  No lost updates: once every request has finished, a mapping without *)
(* quota that only resolutions touched, all of them Resolved, has          *)
(* total_scans equal to the number of those resolutions.                   *)
(***************************************************************************)
C1_NoLostUpdates ==
    \A pk \in Pks :
        (/\ Quiescent
         /\ OnlyResolutions
         /\ qr_codes[pk].max_scans = None
         /\ \A r \in ResolutionsOf(pk) : Resolved(r))
        => qr_codes[pk].total_scans = Cardinality(ResolutionsOf(pk))

(***************************************************************************)
(* C2.  Counter/log consistency: whenever no resolution stands between its *)
(* visit insert and its counter write, every mapping's total_scans is the  *)
(* number of its Visits and its unique_scans the number of its Visits      *)
(* flagged is_unique_visitor.                                              *)
(***************************************************************************)
C2_CountersMatchLog ==
    (\A r \in Reqs : ~(req[r].op = "qr_redirect" /\ req[r].pc = "increment"))
    => \A pk \in Pks :
          /\ qr_codes[pk].total_scans = Cardinality(ScansOf(pk))
          /\ qr_codes[pk].unique_scans = Cardinality(UniqueScansOf(pk))

(***************************************************************************)
(* C3.  Recording is all-or-nothing: a resolution that failed has left no  *)
(* Visit of its own in the store.                                          *)
(***************************************************************************)
C3_RecordingAllOrNothing ==
    \A r \in Reqs : Failed(r) => req[r].scan \notin ScanIds

(***************************************************************************)
(* C4.  Monotonic counters: no step lowers the stored total_scans or       *)
(* unique_scans of a mapping.                                              *)
(***************************************************************************)
C4_CountersMonotonic ==
    [][\A pk \in Pks \cap DOMAIN qr_codes' :
          /\ qr_codes'[pk].total_scans >= qr_codes[pk].total_scans
          /\ qr_codes'[pk].unique_scans >= qr_codes[pk].unique_scans]_vars

(***************************************************************************)
(* C5.  Unique flag under concurrency: no two Visits of one mapping with   *)
(* the same fingerprint are both flagged is_unique_visitor.                *)
(***************************************************************************)
C5_OneUniqueVisitPerVisitor ==
    \A s1, s2 \in ScanIds :
        (/\ qr_scans[s1].qr_code = qr_scans[s2].qr_code
         /\ qr_scans[s1].visitor_id = qr_scans[s2].visitor_id
         /\ qr_scans[s1].is_unique_visitor
         /\ qr_scans[s2].is_unique_visitor)
        => s1 = s2

(***************************************************************************)
(* C6.  Sequential uniqueness accounting: with one resolution at a time,   *)
(* the counter write of a resolution adds 1 to unique_scans, and its Visit *)
(* is flagged unique, exactly when no other Visit of the mapping has the   *)
(* same fingerprint; so after resolutions only, unique_scans is the number *)
(* of distinct fingerprints (A, A gives 1; A, B gives 2).                  *)
(***************************************************************************)
C6_CountedUniqueStep ==
    \A r \in Reqs :
        (req[r].pc = "increment" /\ req'[r].pc = "done" /\ req'[r].response = "redirect")
        => LET pk == req[r].qr_code.id
               visit == qr_scans[req[r].scan]
               earlier == {s \in ScansOf(pk) \ {req[r].scan} :
                              qr_scans[s].visitor_id = visit.visitor_id}
               first == earlier = {}
           IN /\ visit.is_unique_visitor = first
              /\ qr_codes'[pk].unique_scans =
                    qr_codes[pk].unique_scans + (IF first THEN 1 ELSE 0)
              /\ qr_codes'[pk].total_scans = qr_codes[pk].total_scans + 1

C6_UniqueIsDistinctVisitors ==
    \A pk \in Pks :
        (Quiescent /\ OnlyResolutions)
        => qr_codes[pk].unique_scans = Cardinality(VisitorsOf(pk))

\* C6: the step property and the state property together
C6_SequentialUniqueness ==
    /\ [][C6_CountedUniqueStep]_vars
    /\ []C6_UniqueIsDistinctVisitors

\* A then A: two Visits of one visitor, counted once
C6_Witness ==
    \E pk \in Pks :
        /\ Quiescent /\ OnlyResolutions
        /\ Cardinality(ScansOf(pk)) = 2
        /\ Cardinality(VisitorsOf(pk)) = 1
        /\ qr_codes[pk].unique_scans = 1

(***************************************************************************)
(* C7.  unique_scans <= total_scans for every stored mapping, in every     *)
(* state of the concurrent system.                                         *)
(***************************************************************************)
C7_UniqueAtMostTotal ==
    \A pk \in Pks : qr_codes[pk].unique_scans <= qr_codes[pk].total_scans

\* a resolution has been counted while an edit of the mapping, which read
\* the row before, has still to write it
C7_Witness ==
    \E pk \in Pks, e \in Reqs :
        /\ qr_codes[pk].total_scans = 1
        /\ qr_codes[pk].unique_scans = 1
        /\ req[e].op = "qr_code_edit" /\ req[e].pc = "save"
        /\ req[e].qr_code.id = pk
        /\ req[e].qr_code.total_scans = 0

(***************************************************************************)
(* C8.  Quota sequence: for a mapping created with max_scans = N >= 1,     *)
(* active, unexpired, without password, and touched by resolutions only,   *)
(* one at a time: the k-th resolution is Resolved (with its Visit stored   *)
(* and the destination returned) when k <= N and Denied for the quota,     *)
(* recording nothing, when k > N; total_scans counts the Resolved ones.    *)
(***************************************************************************)
C8_QuotaSequence ==
    \A pk \in Pks :
        LET row == qr_codes[pk]
            N == row.max_scans[1]
            attempts == {r \in ResolutionsOf(pk) : Done(r)}
            earlier(r) == {q \in ResolutionsOf(pk) : q < r}
        IN (/\ OnlyResolutions
            /\ row.max_scans # None /\ N >= 1
            /\ row.status = "active" /\ row.password = ""
            /\ Unexpired(row, now))
           => /\ \A r \in attempts :
                    IF Cardinality(earlier(r)) < N
                    THEN /\ Resolved(r)
                         /\ req[r].location = row.destination_url
                         /\ req[r].scan \in ScansOf(pk)
                    ELSE /\ Denied(r, "Maximum scan limit reached")
                         /\ req[r].scan = 0
              /\ row.total_scans = Cardinality({r \in attempts : Resolved(r)})
              /\ Cardinality(ScansOf(pk)) <= N

\* max_scans = 1: the first resolution was Resolved, the second Denied
C8_Witness ==
    \E pk \in Pks, r1, r2 \in Reqs :
        /\ OnlyResolutions
        /\ qr_codes[pk].max_scans = Some(1)
        /\ qr_codes[pk].total_scans = 1
        /\ r1 < r2
        /\ Resolved(r1) /\ req[r1].qr_code.id = pk
        /\ Denied(r2, "Maximum scan limit reached") /\ req[r2].qr_code.id = pk
        /\ Cardinality(ScansOf(pk)) = 1

(***************************************************************************)
(* C9.  Quota rule: for an active, unexpired mapping whose quota is set to *)
(* Q, can_scan denies for the quota when total_scans >= Q and allows when  *)
(* total_scans < Q (Q = 0 included).                                       *)
(***************************************************************************)
C9_QuotaRule ==
    \A r \in Reqs :
        LET self == req[r].qr_code IN
        (/\ req[r].op = "qr_redirect" /\ req[r].pc = "can_scan"
         /\ self.status = "active"
         /\ Unexpired(self, now)
         /\ self.max_scans # None)
        => IF self.total_scans >= self.max_scans[1]
           THEN can_scan(self, now) = <<FALSE, "Maximum scan limit reached">>
           ELSE can_scan(self, now)[1]

(***************************************************************************)
(* C10.  Status gate: a resolution that looked up a mapping whose status   *)
(* is not active ends, in its policy check, Denied as not active; the step *)
(* changes neither table and the resolution has inserted no Visit.         *)
(***************************************************************************)
C10_StatusGateStep ==
    \A r \in Reqs :
        (/\ req[r].op = "qr_redirect" /\ req[r].pc = "can_scan"
         /\ req[r].qr_code.status # "active"
         /\ req'[r] # req[r])
        => /\ req'[r].pc = "done"
           /\ req'[r].response = "qr_error"
           /\ req'[r].error_message = "QR code is not active"
           /\ req'[r].scan = 0
           /\ UNCHANGED <<qr_codes, qr_scans>>

\* C10: every step of the system is a status-gate step
C10_StatusGate == [][C10_StatusGateStep]_vars

\* a paused mapping with password, quota and expiry has denied a resolution
C10_Witness ==
    \E pk \in Pks, r \in Reqs :
        /\ Denied(r, "QR code is not active") /\ req[r].qr_code.id = pk
        /\ qr_codes[pk].status = "paused"
        /\ qr_codes[pk].password # ""
        /\ qr_codes[pk].max_scans # None
        /\ qr_codes[pk].expires_at # None

(***************************************************************************)
(* C11.  Expiry gate: the policy check of a resolution that looked up an   *)
(* active mapping with an expiry timestamp ends Denied as expired whenever *)
(* now >= expiry (now = expiry included), whatever the quota, and does not *)
(* deny for expiry when now < expiry.                                      *)
(***************************************************************************)
C11_ExpiryGateStep ==
    \A r \in Reqs :
        LET self == req[r].qr_code IN
        (/\ req[r].op = "qr_redirect" /\ req[r].pc = "can_scan"
         /\ self.status = "active"
         /\ self.expires_at # None
         /\ req'[r] # req[r])
        => IF now >= self.expires_at[1]
           THEN /\ req'[r].pc = "done"
                /\ req'[r].response = "qr_error"
                /\ req'[r].error_message = "QR code has expired"
           ELSE req'[r].error_message # "QR code has expired"

C11_ExpiryGate == [][C11_ExpiryGateStep]_vars

(***************************************************************************)
(* C12.  Check order: when several policy checks fail at once the reason   *)
(* reported is that of the first failing one in the order status, expiry,  *)
(* quota: a mapping that is not active reports not-active even when its    *)
(* expiry has passed or its quota is used up, and an active mapping whose  *)
(* expiry has passed and whose quota is used up reports expired.           *)
(***************************************************************************)
\* the expiry lies strictly in the past, and the quota (at least 1) is used up
ExpiryPassed(row, tnow) == row.expires_at # None /\ row.expires_at[1] < tnow
QuotaUsedUp(row) ==
    /\ row.max_scans # None /\ row.max_scans[1] >= 1
    /\ row.total_scans >= row.max_scans[1]

C12_CheckOrderStep ==
    \A r \in Reqs :
        LET self == req[r].qr_code IN
        (/\ req[r].op = "qr_redirect" /\ req[r].pc = "can_scan"
         /\ req'[r] # req[r])
        => /\ (/\ self.status # "active"
               /\ ExpiryPassed(self, now) \/ QuotaUsedUp(self))
              => /\ req'[r].response = "qr_error"
                 /\ req'[r].error_message = "QR code is not active"
           /\ (/\ self.status = "active"
               /\ ExpiryPassed(self, now) /\ QuotaUsedUp(self))
              => /\ req'[r].response = "qr_error"
                 /\ req'[r].error_message = "QR code has expired"

Evaluated(r) == req[r].op = "can_scan" /\ Done(r)

C13_EvaluationChangesNothing ==
    \A r \in Reqs :
        (req[r].op = "idle" /\ req'[r].op = "can_scan")
        => /\ UNCHANGED <<qr_codes, qr_scans>>
           /\ req'[r].qr_code = qr_codes[req'[r].qr_code.id]

C13_SameInputsSameResult ==
    \A r1, r2 \in Reqs :
        (/\ Evaluated(r1) /\ Evaluated(r2)
         /\ req[r1].qr_code = req[r2].qr_code
         /\ req[r1].request.now = req[r2].request.now)
        => /\ req[r1].response = req[r2].response
           /\ req[r1].error_message = req[r2].error_message

PasswordRequired(r) ==
    req[r].op = "qr_redirect" /\ Done(r) /\ req[r].response = "qr_password"

C14_PasswordDenialStep ==
    \A r \in Reqs :
        LET self == req[r].qr_code
            password == req[r].request.password
        IN
        (/\ req[r].op = "qr_redirect" /\ req[r].pc = "can_scan"
         /\ can_scan(self, now)[1]
         /\ self.password # ""
         /\ password # self.password
         /\ req'[r] # req[r])
        => /\ req'[r].pc = "done"
           /\ req'[r].response = "qr_password"
           /\ req'[r].scan = 0
           /\ UNCHANGED <<qr_codes, qr_scans>>

C14_PasswordDenial == [][C14_PasswordDenialStep]_vars

\* a mapping with password and a quota of 1: two resolutions were asked for
\* the password, and the quota was still there for the third
C14_Witness ==
    \E pk \in Pks, r1, r2, r3 \in Reqs :
        /\ r1 < r2 /\ r2 < r3
        /\ qr_codes[pk].password # ""
        /\ qr_codes[pk].max_scans = Some(1)
        /\ PasswordRequired(r1) /\ req[r1].qr_code.id = pk
        /\ PasswordRequired(r2) /\ req[r2].qr_code.id = pk
        /\ Resolved(r3) /\ req[r3].qr_code.id = pk
        /\ qr_codes[pk].total_scans = 1
        /\ Cardinality(ScansOf(pk)) = 1

(***************************************************************************)
(* C15.  Password gate pass: a resolution that passes the policy check     *)
(* proceeds to Recording if and only if the mapping's password is empty or *)
(* the credential supplied equals it exactly; a resolution in Recording    *)
(* ends in Resolved unless the store fails, and every resolution that ends *)
(* in Resolved satisfied that condition.                                   *)
(***************************************************************************)
CredentialAccepted(rq) ==
    rq.qr_code.password = "" \/ rq.request.password = rq.qr_code.password

C15_GateStep ==
    \A r \in Reqs :
        (/\ req[r].op = "qr_redirect" /\ req[r].pc = "can_scan"
         /\ can_scan(req[r].qr_code, now)[1]
         /\ req'[r] # req[r])
        => (req'[r].pc = "exists" <=> CredentialAccepted(req[r]))

C15_RecordingStep ==
    \A r \in Reqs :
        (/\ req[r].op = "qr_redirect"
         /\ req[r].pc \in {"exists", "create", "increment"}
         /\ req'[r].pc = "done")
        => /\ req'[r].response \in
                 {"redirect", "OperationalError", "IntegrityError", "DatabaseError"}
           /\ req'[r].response = "redirect" => CredentialAccepted(req[r])

C15_PasswordPass == [][C15_GateStep /\ C15_RecordingStep]_vars

\* a mapping with password has resolved one resolution and asked another
\* for the password
C15_Witness ==
    \E pk \in Pks, r1, r2 \in Reqs :
        /\ qr_codes[pk].password = "pw"
        /\ Resolved(r1) /\ req[r1].qr_code.id = pk
        /\ req[r1].scan \in ScansOf(pk)
        /\ PasswordRequired(r2) /\ req[r2].qr_code.id = pk

(***************************************************************************)
(* C16.  Read-only before Recording: a resolution that ends in NotFound,   *)
(* Denied or PasswordRequired has taken only its lookup and its policy and *)
(* password checks, and neither step changed a mapping, a counter or a     *)
(* Visit; so as long as no resolution has gone further the store is as it  *)
(* was, however many such resolutions there were.                          *)
(***************************************************************************)
NotFound(r) == req[r].op = "qr_redirect" /\ Done(r) /\ req[r].response = "Http404"

EndsBeforeRecording(r) ==
    /\ req[r].op = "qr_redirect" /\ Done(r)
    /\ req[r].response \in {"Http404", "qr_error", "qr_password"}

C16_ReadOnlyStep ==
    \A r \in Reqs :
        /\ (req[r].op = "idle" /\ req'[r].op = "qr_redirect")
           => UNCHANGED <<qr_codes, qr_scans>>
        /\ (~Done(r) /\ EndsBeforeRecording(r)')
           => /\ req[r].pc \in {"idle", "can_scan"}
              /\ req'[r].scan = 0
              /\ UNCHANGED <<qr_codes, qr_scans>>

C16_NothingRecorded ==
    (\A r \in Reqs : req[r].op = "qr_redirect" => EndsBeforeRecording(r))
    => /\ qr_scans = <<>>
       /\ \A pk \in Pks :
             /\ qr_codes[pk].total_scans = 0
             /\ qr_codes[pk].unique_scans = 0
             /\ qr_codes[pk].last_scanned_at = None

C16_ReadOnlyBeforeRecording ==
    /\ [][C16_ReadOnlyStep]_vars
    /\ []C16_NothingRecorded

\* resolutions have ended in NotFound, in Denied and in PasswordRequired,
\* the last two of the same mapping
C16_Witness ==
    \E pk \in Pks, r1, r2, r3 \in Reqs :
        /\ NotFound(r1)
        /\ PasswordRequired(r2) /\ req[r2].qr_code.id = pk
        /\ Denied(r3, "QR code has expired") /\ req[r3].qr_code.id = pk
        /\ \A r \in Reqs : req[r].op = "qr_redirect" => EndsBeforeRecording(r)
        /\ qr_codes[pk].total_scans = 0
        /\ ScansOf(pk) = {}

(***************************************************************************)
(* C17.  Unknown identifier: a resolution whose short identifier matches   *)
(* no stored mapping ends, in its lookup, in NotFound, and a resolution in *)
(* NotFound stays there: it is never Resolved, Denied or PasswordRequired. *)
(***************************************************************************)
C17_UnknownIdentifierStep ==
    /\ \A r \in Reqs, short_code \in Codes, META \in Metas :
          (/\ ByShortCode(short_code) = {}
           /\ qr_redirect_get(r, short_code, "", META))
          => /\ req'[r].op = "qr_redirect" /\ req'[r].pc = "done"
             /\ req'[r].response = "Http404"
             /\ req'[r].scan = 0
    /\ \A r \in Reqs : NotFound(r) => NotFound(r)'

C17_UnknownIdentifier == [][C17_UnknownIdentifierStep]_vars

\* a mapping is stored, and a resolution that asked for another identifier
\* ended in NotFound
C17_Witness ==
    \E pk \in Pks, r \in Reqs :
        /\ qr_codes[pk].short_code \in Codes
        /\ NotFound(r)
        /\ \E q \in Reqs : q < r /\ req[q].op = "qr_code_create" /\ req[q].qr_code.id = pk

(***************************************************************************)
(* C18.  Identifier uniqueness under concurrent creation: in every state   *)
(* no two stored mappings share a non-empty short identifier, also when    *)
(* two creations both draw the same identifier between the existence check *)
(* of the one and its insert.                                              *)
(***************************************************************************)
C18_IdentifiersUnique ==
    \A pk1, pk2 \in Pks :
        (/\ qr_codes[pk1].short_code # ""
         /\ qr_codes[pk1].short_code = qr_codes[pk2].short_code)
        => pk1 = pk2

\* two creations drew the same identifier and both found it free: the insert
\* of the one is stored, the insert of the other was refused
C18_Witness ==
    \E pk \in Pks, r1, r2 \in Reqs :
        /\ req[r1].op = "qr_code_create" /\ Done(r1)
        /\ req[r1].response = "redirect" /\ req[r1].qr_code.id = pk
        /\ qr_codes[pk].short_code \in Codes
        /\ req[r2].op = "qr_code_create" /\ Done(r2)
        /\ req[r2].response = "IntegrityError"

(***************************************************************************)
(* C19.  Identifier assignment: a mapping gets its short identifier at its *)
(* creation, and only if it is dynamic; no later step changes the short    *)
(* identifier of a stored mapping, so that at all times every dynamic      *)
(* mapping has the identifier it was created with and every static mapping *)
(* has none.                                                               *)
(***************************************************************************)
C19_AssignedAtCreationStep ==
    \A pk \in DOMAIN qr_codes' :
        /\ pk \in Pks => qr_codes'[pk].short_code = qr_codes[pk].short_code
        /\ qr_codes'[pk].qr_type = "dynamic" => qr_codes'[pk].short_code # ""
        /\ qr_codes'[pk].qr_type = "static" => qr_codes'[pk].short_code = ""

C19_IdentifierAssignment == [][C19_AssignedAtCreationStep]_vars

(***************************************************************************)
(* C20.  Visits are append-only: no step changes a field of a stored       *)
(* Visit; a step removes a Visit only together with the mapping it belongs *)
(* to; and a step inserts a Visit only as the Recording step of a          *)
(* resolution.                                                             *)
(***************************************************************************)
C20_AppendOnlyStep ==
    /\ \A s \in ScanIds :
          IF s \in DOMAIN qr_scans'
          THEN qr_scans'[s] = qr_scans[s]
          ELSE qr_scans[s].qr_code \in Pks /\ qr_scans[s].qr_code \notin DOMAIN qr_codes'
    /\ \A s \in DOMAIN qr_scans' \ ScanIds :
          \E r \in Reqs :
              /\ req[r].op = "qr_redirect" /\ req[r].pc = "create"
              /\ req'[r].pc = "increment" /\ req'[r].scan = s
              /\ qr_scans'[s].qr_code = req[r].qr_code.id

C20_VisitsAppendOnly == [][C20_AppendOnlyStep]_vars

(***************************************************************************)
(* C21.  Cascade delete: in every state every Visit references a stored    *)
(* mapping, so that after a mapping is deleted no Visit referencing it     *)
(* remains; also when the delete runs between the lookup of a resolution   *)
(* of that mapping and its insert of the Visit.                            *)
(***************************************************************************)
C21_VisitsReferenceMappings ==
    \A s \in ScanIds : qr_scans[s].qr_code \in Pks

C21_DeleteStep ==
    \A pk \in Pks \ DOMAIN qr_codes' :
        \A s \in DOMAIN qr_scans' : qr_scans'[s].qr_code # pk

C21_CascadeDelete ==
    /\ [][C21_DeleteStep]_vars
    /\ []C21_VisitsReferenceMappings

\* a resolution looked the mapping up, the mapping was deleted, and the
\* insert of the Visit was refused
C21_Witness ==
    \E r, d \in Reqs :
        /\ req[r].op = "qr_redirect" /\ Done(r)
        /\ req[r].response = "IntegrityError"
        /\ req[d].op = "qr_code_delete" /\ Done(d)
        /\ req[d].response = "redirect"
        /\ req[d].qr_code.id = req[r].qr_code.id
        /\ req[r].qr_code.id \notin Pks
        /\ qr_scans = <<>>

(***************************************************************************)
(* C22.  Fingerprint determinism: two Visits recorded for the same derived *)
(* source address and the same raw user agent carry the same fingerprint,  *)
(* whatever the referer, the password supplied, the mapping resolved, the  *)
(* time, and the peer address and forwarding header the address was        *)
(* derived from.                                                           *)
(***************************************************************************)
C22_FingerprintDeterminism ==
    \A s1, s2 \in ScanIds :
        (/\ qr_scans[s1].ip_address = qr_scans[s2].ip_address
         /\ qr_scans[s1].user_agent = qr_scans[s2].user_agent)
        => qr_scans[s1].visitor_id = qr_scans[s2].visitor_id

\* two Visits of one visitor, of different mappings, at different times and
\* with different referers, carry one fingerprint; a third party has another
C22_Witness ==
    \E s1, s2 \in ScanIds :
        /\ qr_scans[s1].ip_address = qr_scans[s2].ip_address
        /\ qr_scans[s1].user_agent = qr_scans[s2].user_agent
        /\ qr_scans[s1].visitor_id = qr_scans[s2].visitor_id
        /\ qr_scans[s1].referer # qr_scans[s2].referer
        /\ qr_scans[s1].qr_code # qr_scans[s2].qr_code
        /\ qr_scans[s1].scanned_at # qr_scans[s2].scanned_at

(***************************************************************************)
(* C23.  Aggregation counts: the total of an aggregate is the number of    *)
(* Visits of the requested mapping, and of no other, with timestamp >=     *)
(* since; in the device, browser and OS groupings the count of a label is  *)
(* the number of those Visits carrying the label; so the counts of each    *)
(* grouping of an answered aggregate sum to its total.                     *)
(***************************************************************************)
\* the Visits of the mapping of aggregate request r inside its window
WindowOf(r) ==
    {s \in ScanIds : /\ qr_scans[s].qr_code = req[r].qr_code.id
                     /\ qr_scans[s].scanned_at >= req[r].start_date}

RECURSIVE SumOfCounts(_)
SumOfCounts(q) ==
    IF q = <<>> THEN 0 ELSE Head(q)["count"] + SumOfCounts(Tail(q))

\* r is an aggregate request that has been answered
Aggregated(r) ==
    req[r].op = "qr_analytics" /\ Done(r) /\ req[r].response = "qr_analytics"

\* each query counts the Visits of the window as they are when it runs
C23_QueryStep ==
    \A r \in Reqs :
        /\ (req[r].pc = "count" /\ req'[r].pc # "count")
           => req'[r].context.total_scans = Some(Cardinality(WindowOf(r)))
        /\ \A stats \in DOMAIN StatsField :
              (/\ req[r].pc = "render"
               /\ req[r].context[stats] = None
               /\ req'[r].context[stats] # None)
              => LET q == req'[r].context[stats][1]
                     f == StatsField[stats]
                 IN /\ \A s \in WindowOf(r) : \E i \in DOMAIN q :
                          q[i][f] = qr_scans[s][f]
                    /\ \A i \in DOMAIN q :
                          /\ q[i]["count"] =
                                Cardinality({s \in WindowOf(r) :
                                                qr_scans[s][f] = q[i][f]})
                          /\ q[i]["count"] > 0
                          /\ \A j \in DOMAIN q : q[j][f] = q[i][f] => j = i

C23_CountsSumToTotal ==
    \A r \in Reqs :
        Aggregated(r) =>
            \A stats \in DOMAIN StatsField :
                SumOfCounts(req[r].context[stats][1]) = req[r].context.total_scans[1]

C23_AggregationCounts ==
    /\ [][C23_QueryStep]_vars
    /\ []C23_CountsSumToTotal

(***************************************************************************)
(* C24.  Aggregation order.  As claimed: each of the device, browser and   *)
(* OS groupings is returned in descending order of count, and entries of   *)
(* equal count in the order of their labels, so that the same Visits       *)
(* always yield the same sequence.  What holds: each grouping is returned  *)
(* in descending order of count; the order of entries of equal count is    *)
(* left to the store.                                                      *)
(***************************************************************************)
\* the labels parse_user_agent produces here, in the order of their code points
LabelOrder ==
    <<"Firefox 120", "Linux ", "Mobile Safari 17", "Other ", "desktop",
      "iOS 17", "mobile", "unknown">>

LabelBefore(a, b) ==
    \E i, j \in DOMAIN LabelOrder :
        LabelOrder[i] = a /\ LabelOrder[j] = b /\ i < j

\* request r evaluates the grouping `stats` in this step
Evaluates(r, stats) ==
    /\ req[r].op = "qr_analytics" /\ req[r].pc = "render"
    /\ req[r].context[stats] = None
    /\ req'[r].context[stats] # None

C24_OrderStep ==
    \A r \in Reqs, stats \in DOMAIN StatsField :
        Evaluates(r, stats) =>
            LET q == req'[r].context[stats][1]
                f == StatsField[stats]
            IN \A i, j \in DOMAIN q :
                  i < j => \/ q[i]["count"] > q[j]["count"]
                           \/ /\ q[i]["count"] = q[j]["count"]
                              /\ LabelBefore(q[i][f], q[j][f])

\* the claim as stated
C24_AggregationOrder == [][C24_OrderStep]_vars

C24_DescendingStep ==
    \A r \in Reqs, stats \in DOMAIN StatsField :
        Evaluates(r, stats) =>
            LET q == req'[r].context[stats][1] IN
            \A i, j \in DOMAIN q : i < j => q[i]["count"] >= q[j]["count"]

\* the claim as amended
C24_DescendingCount == [][C24_DescendingStep]_vars

\* an answered aggregate lists the device of two Visits before the device of one
C24_Witness ==
    \E r \in Reqs :
        /\ Aggregated(r)
        /\ LET q == req[r].context.device_stats[1] IN
           /\ Len(q) = 2
           /\ q[1]["count"] = 2 /\ q[2]["count"] = 1
           /\ q[1].device_type # q[2].device_type

(***************************************************************************)
(* C30.  Day buckets: the by-day rollup of an aggregate has exactly one    *)
(* bucket for each calendar day on which a Visit of the mapping falls      *)
(* inside the window, with the number of the window's Visits of that day,  *)
(* in ascending order of date; a day without such a Visit has no bucket.   *)
(***************************************************************************)
\* the window's Visits of request r that fall on day d
WindowOn(r, d) ==
    {s \in WindowOf(r) : TruncDate(qr_scans[s].scanned_at) = d}

C30_DayBucketsStep ==
    \A r \in Reqs :
        (/\ req[r].op = "qr_analytics" /\ req[r].pc = "scans_by_date"
         /\ req'[r].pc # "scans_by_date")
        => LET q == req'[r].context.scans_by_date[1] IN
           /\ \A s \in WindowOf(r) : \E i \in DOMAIN q :
                 q[i].date = TruncDate(qr_scans[s].scanned_at)
           /\ \A i \in DOMAIN q :
                 /\ WindowOn(r, q[i].date) # {}
                 /\ q[i].count = Cardinality(WindowOn(r, q[i].date))
           /\ \A i, j \in DOMAIN q : i < j => q[i].date < q[j].date

C30_DayBuckets == [][C30_DayBucketsStep]_vars

\* a rollup of two days in order
C30_Witness ==
    \E r \in Reqs :
        /\ Aggregated(r)
        /\ LET q == req[r].context.scans_by_date[1] IN
           /\ Len(q) = 2
           /\ q[1].date = 0 /\ q[2].date = 1
           /\ q[1].count + q[2].count = 3

(***************************************************************************)
(* C25.  Counters are written only by the Scan Recorder: the write of an   *)
(* edit leaves total_scans, unique_scans and the last-scan timestamp of    *)
(* the mapping at the values the store holds when the edit is written,     *)
(* also when a resolution of the mapping has completed since the edit      *)
(* read it.                                                                *)
(***************************************************************************)
C25_EditStep ==
    \A r \in Reqs :
        LET pk == req[r].qr_code.id IN
        (/\ req[r].op = "qr_code_edit" /\ req[r].pc = "save"
         /\ req'[r].pc = "done"
         /\ pk \in Pks)
        => /\ pk \in DOMAIN qr_codes'
           /\ qr_codes'[pk].total_scans = qr_codes[pk].total_scans
           /\ qr_codes'[pk].unique_scans = qr_codes[pk].unique_scans
           /\ qr_codes'[pk].last_scanned_at = qr_codes[pk].last_scanned_at

C25_EditKeepsCounters == [][C25_EditStep]_vars

C26_DrawStep ==
    \A r \in Reqs :
        (/\ req[r].op = "qr_code_create" /\ req[r].pc = "generate"
         /\ req[r].qr_code.qr_type = "dynamic"
         /\ req'[r] # req[r])
        => \/ /\ req'[r] = [req[r] EXCEPT !.attempts = @ + 1]
              /\ UNCHANGED <<qr_codes, qr_scans>>
           \/ /\ req'[r].pc = "insert"
              /\ req'[r].attempts = req[r].attempts
              /\ ByShortCode(req'[r].qr_code.short_code) = {}

C26_NeverExhausted ==
    \A r \in Reqs : req[r].response # "GenerationExhausted"

C27_InsertStep ==
    \A r \in Reqs :
        (/\ req[r].op = "qr_code_create" /\ req[r].pc = "insert"
         /\ req[r].qr_code.qr_type = "dynamic"
         /\ ByShortCode(req[r].qr_code.short_code) # {}
         /\ req'[r] # req[r])
        => /\ req'[r].response # "IntegrityError"
           /\ req'[r].pc = "generate"
           /\ req'[r].qr_code.short_code = ""

C27_RetryOnCollision == [][C27_InsertStep]_vars

(***************************************************************************)
(* C28.  Gate order: the password gate is reached only after the policy    *)
(* check passes.  A resolution of a mapping that has a password and is not *)
(* active, expired or over quota ends Denied with the reason of the policy *)
(* check, whatever credential it carries, and never with PasswordRequired; *)
(* a resolution that ends with PasswordRequired looked up a mapping that   *)
(* passes the policy check.                                                *)
(***************************************************************************)
FailsPolicy(row, tnow) ==
    \/ row.status # "active"
    \/ ExpiryPassed(row, tnow)
    \/ QuotaUsedUp(row)

C28_GateOrderStep ==
    \A r \in Reqs :
        LET self == req[r].qr_code IN
        (/\ req[r].op = "qr_redirect" /\ req[r].pc = "can_scan"
         /\ req'[r] # req[r])
        => /\ (self.password # "" /\ FailsPolicy(self, now))
              => /\ req'[r].pc = "done"
                 /\ req'[r].response = "qr_error"
                 /\ req'[r].error_message \in
                       {"QR code is not active", "QR code has expired",
                        "Maximum scan limit reached"}
           /\ req'[r].response = "qr_password" => ~FailsPolicy(self, now)

Outcomes ==
    {"redirect", "qr_error", "qr_password", "Http404",
     "OperationalError", "IntegrityError", "DatabaseError"}

C29_Terminates ==
    \A r \in Reqs : (req[r].op = "qr_redirect") ~> Done(r)

C29_OneOutcomeStep ==
    \A r \in Reqs :
        (req[r].op = "qr_redirect" /\ Done(r)) => req'[r] = req[r]

C29_AnOutcome ==
    \A r \in Reqs :
        req[r].op = "qr_redirect" =>
            /\ Done(r) <=> req[r].response # ""
            /\ Done(r) => req[r].response \in Outcomes

C29_EventualOutcome ==
    /\ C29_Terminates
    /\ [][C29_OneOutcomeStep]_vars
    /\ []C29_AnOutcome

\* two resolutions of one mapping wrote its counters from the same read, and
\* both were answered with the destination
C29_Witness ==
    \E pk \in Pks, r1, r2 \in Reqs :
        /\ r1 # r2
        /\ Resolved(r1) /\ req[r1].qr_code.id = pk
        /\ Resolved(r2) /\ req[r2].qr_code.id = pk
        /\ Cardinality(ScansOf(pk)) = 2
        /\ qr_codes[pk].total_scans = 1

(***************************************************************************)
(* C31.  Quota holds under concurrency: in every state a mapping with      *)
(* max_scans = N, N >= 1, has at most N Visits and total_scans at most N,  *)
(* also when several resolutions pass the policy check while total_scans   *)
(* is N - 1.                                                               *)
(***************************************************************************)
C31_QuotaHolds ==
    \A pk \in Pks :
        LET row == qr_codes[pk] IN
        (row.max_scans # None /\ row.max_scans[1] >= 1)
        => /\ Cardinality(ScansOf(pk)) <= row.max_scans[1]
           /\ row.total_scans <= row.max_scans[1]

(***************************************************************************)
(* C32.  One Visit per Resolved outcome: a resolution that ends Resolved   *)
(* has inserted one Visit for the mapping it looked up, with the request's *)
(* fingerprint and the success flag set, and returns the destination of    *)
(* that mapping; and once every request has been answered, each mapping    *)
(* has as many Visits as resolutions of it that were Resolved.             *)
(***************************************************************************)
C32_ResolvedStep ==
    \A r \in Reqs :
        (/\ req[r].op = "qr_redirect" /\ ~Done(r)
         /\ req'[r].pc = "done" /\ req'[r].response = "redirect")
        => /\ req[r].scan \in DOMAIN qr_scans'
           /\ LET scan == qr_scans'[req[r].scan] IN
              /\ scan.qr_code = req[r].qr_code.id
              /\ scan.visitor_id = generate_visitor_id(req[r].request.META)
              /\ scan.was_successful
           /\ req'[r].location = req[r].qr_code.destination_url

C32_VisitsAreResolved ==
    Quiescent =>
        \A pk \in Pks :
            Cardinality(ScansOf(pk)) =
                Cardinality({r \in ResolutionsOf(pk) : Resolved(r)})

RoutingFields ==
    {"user", "qr_type", "destination_url", "short_code", "status",
     "max_scans", "expires_at", "password"}

C33_ResolutionStep ==
    \A r \in Reqs :
        (req[r].op = "qr_redirect" /\ req'[r] # req[r])
        => /\ DOMAIN qr_codes' = Pks
           /\ \A pk \in Pks :
                 /\ \A f \in RoutingFields : qr_codes'[pk][f] = qr_codes[pk][f]
                 /\ pk # req[r].qr_code.id => qr_codes'[pk] = qr_codes[pk]

C33_RecordingTouchesCounters == [][C33_ResolutionStep]_vars

\* a resolution looked an active mapping up and inserted its Visit; an edit
\* has paused the mapping since; the counter write is next
C33_Witness ==
    \E r, e \in Reqs :
        LET pk == req[r].qr_code.id IN
        /\ req[r].op = "qr_redirect" /\ req[r].pc = "increment"
        /\ req[r].qr_code.status = "active"
        /\ req[e].op = "qr_code_edit" /\ Done(e) /\ req[e].response = "redirect"
        /\ req[e].qr_code.id = pk
        /\ pk \in Pks
        /\ qr_codes[pk].status = "paused"
        /\ req[r].scan \in ScansOf(pk)

(***************************************************************************)
(* C34.  Static mappings are outside the resolution path: no resolution,   *)
(* whatever identifier it carries, looks up a static mapping, and in every *)
(* state a static mapping has no Visits and total_scans = 0.               *)
(***************************************************************************)
C34_LookupStep ==
    \A r \in Reqs :
        (/\ req[r].op = "idle" /\ req'[r].op = "qr_redirect"
         /\ req'[r].qr_code # NoRow /\ ~Done(r)')
        => req'[r].qr_code.qr_type = "dynamic"

C34_StaticUntouched ==
    \A pk \in Pks :
        qr_codes[pk].qr_type = "static"
        => /\ ScansOf(pk) = {}
           /\ qr_codes[pk].total_scans = 0

C34_StaticOutsideResolution ==
    /\ [][C34_LookupStep]_vars
    /\ []C34_StaticUntouched

(***************************************************************************)
(* C35.  Static mappings do not compete for identifiers: the creation of a *)
(* static mapping ends with the mapping stored whatever mappings exist,    *)
(* another static mapping included, and the uniqueness constraint on short *)
(* identifiers rejects an insert only for an assigned (non-empty)          *)
(* identifier that a stored mapping already has.                           *)
(***************************************************************************)
C35_CreateStep ==
    \A r \in Reqs :
        LET self == req[r].qr_code IN
        (req[r].op = "qr_code_create" /\ ~Done(r) /\ Done(r)')
        => /\ self.qr_type = "static" => req'[r].response = "redirect"
           /\ req'[r].response = "IntegrityError" => self.short_code # ""

C35_StaticDoNotCompete == [][C35_CreateStep]_vars

(***************************************************************************)
(* C36.  Last-scan timestamp tracks the log: whenever no resolution stands *)
(* between its visit insert and its counter write, a mapping's             *)
(* last_scanned_at is unset exactly when it has no Visits and otherwise is *)
(* not earlier than the scanned_at of any of its Visits; and no step moves *)
(* a stored last_scanned_at backwards or unsets it.                        *)
(***************************************************************************)
C36_TracksLog ==
    (\A r \in Reqs : ~(req[r].op = "qr_redirect" /\ req[r].pc = "increment"))
    => \A pk \in Pks :
          /\ qr_codes[pk].last_scanned_at = None <=> ScansOf(pk) = {}
          /\ \A s \in ScansOf(pk) :
                qr_codes[pk].last_scanned_at # None
                => qr_codes[pk].last_scanned_at[1] >= qr_scans[s].scanned_at

C36_ForwardStep ==
    \A pk \in Pks \cap DOMAIN qr_codes' :
        qr_codes[pk].last_scanned_at # None
        => /\ qr_codes'[pk].last_scanned_at # None
           /\ qr_codes'[pk].last_scanned_at[1] >= qr_codes[pk].last_scanned_at[1]

C36_LastScanTracksLog == [][C36_ForwardStep]_vars /\ []C36_TracksLog

(***************************************************************************)
(* C37.  Owner isolation: an edit, delete, download or aggregate request   *)
(* goes past its lookup only when the requesting user is the owner of the  *)
(* mapping; otherwise it is answered Http404 at once and the store is as   *)
(* before.  No step changes the user of a stored mapping.                  *)
(***************************************************************************)
OwnerOps == {"qr_code_edit", "qr_code_delete", "qr_code_download", "qr_analytics"}

C37_LookupStep ==
    \A r \in Reqs :
        (req[r].op = "idle" /\ req'[r].op \in OwnerOps)
        => IF Done(r)'
           THEN /\ req'[r].response = "Http404"
                /\ UNCHANGED <<qr_codes, qr_scans>>
           ELSE /\ req'[r].qr_code.id \in Pks
                /\ req'[r].request.user = qr_codes[req'[r].qr_code.id].user

C37_OwnerStep ==
    \A pk \in Pks \cap DOMAIN qr_codes' : qr_codes'[pk].user = qr_codes[pk].user

C38_ReadOnlyStep ==
    \A r \in Reqs :
        (req'[r].op = "qr_analytics" /\ req'[r] # req[r])
        => UNCHANGED <<qr_codes, qr_scans, last_pk, last_scan_id>>

C38_OwnVisitsStep ==
    \A r \in Reqs :
        (req[r].op = "qr_analytics" /\ req'[r] # req[r])
        => LET was == req[r].context
               is == req'[r].context
           IN /\ is.total_scans # was.total_scans
                 => is.total_scans = Some(Cardinality(WindowOf(r)))
              /\ is.scans_by_date # was.scans_by_date
                 => LET q == is.scans_by_date[1] IN
                    /\ SumOfCounts(q) = Cardinality(WindowOf(r))
                    /\ \A i \in DOMAIN q : \E s \in WindowOf(r) :
                          q[i].date = TruncDate(qr_scans[s].scanned_at)
              /\ \A stats \in DOMAIN StatsField :
                    is[stats] # was[stats]
                    => LET q == is[stats][1] IN
                       /\ SumOfCounts(q) = Cardinality(WindowOf(r))
                       /\ \A i \in DOMAIN q : \E s \in WindowOf(r) :
                             q[i][StatsField[stats]] = qr_scans[s][StatsField[stats]]

C38_AggregationReadOnly == [][C38_ReadOnlyStep /\ C38_OwnVisitsStep]_vars

\* an answered aggregate with Visits in its total while another mapping has
\* Visits too
C38_Witness ==
    \E r \in Reqs :
        /\ Aggregated(r)
        /\ req[r].context.total_scans[1] >= 1
        /\ \E s \in ScanIds : qr_scans[s].qr_code # req[r].qr_code.id

(***************************************************************************)
(* C39.  Fingerprint input is unambiguous: two Visits whose (derived       *)
(* source address, raw user agent) pairs differ were hashed from different *)
(* strings, so (the digest naming its input) two Visits with one           *)
(* visitor_id have the same address and the same user agent.               *)
(***************************************************************************)
C39_FingerprintInputUnambiguous ==
    \A s1, s2 \in ScanIds :
        qr_scans[s1].visitor_id = qr_scans[s2].visitor_id
        => /\ qr_scans[s1].ip_address = qr_scans[s2].ip_address
           /\ qr_scans[s1].user_agent = qr_scans[s2].user_agent

=============================================================================
